---------------------------- MODULE Spec2Model ----------------------------
(***************************************************************************)
(* The /transcribe endpoint of src/main.py (transcribe_and_analyze) as a   *)
(* state machine.  One request runs the handler from its first line to the *)
(* response; the handler is cut at the points where it waits for somebody  *)
(* else (the upload read, the two speech-to-text calls, the analysis       *)
(* call), and the reply of each backend is chosen by the environment.      *)
(*                                                                         *)
(* Python values are modelled by what the code can observe of them:        *)
(*   - a text is a sequence of one-character strings, so that str.strip()  *)
(*     is computed and not assumed;                                        *)
(*   - a value of the analysis output is a tagged record (PyNone, PyStr,   *)
(*     PyInt, PyList, PyMixed) so that dict.get(), .strip() and the        *)
(*     validation of AnalyzeResponse tell them apart;                      *)
(*   - None in an Optional[str] position (filename, language) is the       *)
(*     string NoneStr.                                                     *)
(***************************************************************************)
EXTENDS Integers, Sequences, FiniteSets, TLC

VARIABLES
    OPENAI_API_KEY,  \* the credential read at import time (line 12)
    loop,            \* the requests whose code occupies the event loop thread
    file,            \* request -> the upload: [content, filename]
    mode,            \* request -> "clean" | "literal"
    language_hint,   \* request -> the language form field (NoneStr if absent)
    pc,              \* request -> where its handler is
    reads,           \* request -> number of file.read() calls started
    f,               \* request -> the BytesIO object: [state, buf, pos, name]
    raw_text,        \* request -> the local variable raw_text (PyNone while unbound)
    lang,            \* request -> the local variable lang (NoneStr while unbound)
    calls,           \* request -> the backend calls made so far, in order
    sttReplies,      \* request -> what the speech-to-text calls answered
    anReply,         \* request -> <<>> or <<what the analysis call answered>>
    status,          \* request -> 0 while running, then the HTTP status
    error,           \* request -> "" | "config" | "audio" | "analysis" | "unhandled"
    detail,          \* request -> the cause carried by the HTTPException
    response         \* request -> <<>> or <<the JSON body returned>>

vars == <<OPENAI_API_KEY, loop, file, mode, language_hint, pc, reads, f,
          raw_text, lang, calls, sttReplies, anReply, status, error, detail,
          response>>

-----------------------------------------------------------------------------
(* Bounds of the model.                                                    *)

MaxLen == 2      \* longest text a backend returns

-----------------------------------------------------------------------------
(* Python values.                                                          *)

NoneStr == "<None>"

Truthy(s) == s # NoneStr /\ s # ""

\* a or b, for Optional[str] operands
Or(a, b) == IF Truthy(a) THEN a ELSE b

Whitespace == {" "}
Chars == {" ", "a"}

SeqsUpTo(S, n) == UNION {[1..k -> S] : k \in 0..n}
Texts == SeqsUpTo(Chars, MaxLen)

RECURSIVE LStrip(_)
LStrip(t) ==
    IF t = <<>> THEN <<>>
    ELSE IF Head(t) \in Whitespace THEN LStrip(Tail(t))
    ELSE t

RECURSIVE RStrip(_)
RStrip(t) ==
    IF t = <<>> THEN <<>>
    ELSE IF t[Len(t)] \in Whitespace THEN RStrip(SubSeq(t, 1, Len(t) - 1))
    ELSE t

\* str.strip()
Strip(t) == RStrip(LStrip(t))

PyNone == [t |-> "none", s |-> <<>>, l |-> <<>>]
PyInt == [t |-> "int", s |-> <<>>, l |-> <<>>]
PyStr(x) == [t |-> "str", s |-> x, l |-> <<>>]
PyList(x) == [t |-> "list", s |-> <<>>, l |-> x]
\* a list holding something that is not a string
PyMixed == [t |-> "mixed", s |-> <<>>, l |-> <<>>]

IsStr(v) == v.t = "str"
IsStrList(v) == v.t = "list"

-----------------------------------------------------------------------------
(* The interface of the handler and of the backends.                       *)

Payloads == {<<>>, <<1>>, <<1, 2>>}

Filenames == {NoneStr, "", "call.mp3"}
Hints == {NoneStr, "", "pt"}
Modes == {"clean", "literal"}
Keys == {NoneStr, "", "sk-test"}

Uploads == [content : Payloads, filename : Filenames]

\* what an exception says when it is formatted into the detail
Causes == {"timeout", "unsupported"}

\* a successful speech-to-text reply: transcript.text and, when the backend
\* reports one, transcript.language (NoneStr: no such attribute, or None)
SttReply(text, language) ==
    [ok |-> TRUE, text |-> text, language |-> language, cause |-> ""]
SttError(cause) ==
    [ok |-> FALSE, text |-> PyNone, language |-> NoneStr, cause |-> cause]

Languages == {NoneStr, "", "es"}
Transcripts == {PyStr(t) : t \in Texts}

SttCall(api, model, fobj, language) ==
    [api |-> api, model |-> model,
     payload |-> SubSeq(fobj.buf, fobj.pos + 1, Len(fobj.buf)),
     name |-> fobj.name, language |-> language, text |-> PyNone]

\* the transcript trimmed before it is given to the analysis model
AnalysisCallTrimmed(text) ==
    [api |-> "analysis", model |-> "gpt-4o-mini", payload |-> <<>>,
     name |-> "", language |-> "", text |-> PyStr(Strip(text.s))]

AnalysisCall(text) ==
    [api |-> "analysis", model |-> "gpt-4o-mini", payload |-> <<>>,
     name |-> "", language |-> "", text |-> text]

NoFile == [state |-> "none", buf |-> <<>>, pos |-> 0, name |-> ""]

\* _io.BytesIO(audio_bytes), then f.name = file.filename or "audio.wav"
BytesIO(audio_bytes, filename) ==
    [state |-> "open", buf |-> audio_bytes, pos |-> 0,
     name |-> Or(filename, "audio.wav")]

\* the rewind left out: f stays where the failed call left it
Seek0NoRewind(fobj) == fobj

\* f.seek(0)
Seek0(fobj) == [fobj EXCEPT !.pos = 0]

\* the with block is left
Close(fobj) == [fobj EXCEPT !.state = "closed"]

\* the test "OPENAI_API_KEY is None" in place of "not OPENAI_API_KEY"
KeyMissingNoneOnly(key) == key = NoneStr

\* if not OPENAI_API_KEY
KeyMissing(key) == ~Truthy(key)

-----------------------------------------------------------------------------
(* The state after construction: the module is imported, the requests have *)
(* arrived with their form fields, no handler has run.                     *)

Requests == DOMAIN pc

InitWith(R, KeySet, UploadSet, ModeSet, HintSet) ==
    /\ OPENAI_API_KEY \in KeySet
    /\ loop = {}
    /\ file \in [R -> UploadSet]
    /\ mode \in [R -> ModeSet]
    /\ language_hint \in [R -> HintSet]
    /\ pc = [r \in R |-> "start"]
    /\ reads = [r \in R |-> 0]
    /\ f = [r \in R |-> NoFile]
    /\ raw_text = [r \in R |-> PyNone]
    /\ lang = [r \in R |-> NoneStr]
    /\ calls = [r \in R |-> <<>>]
    /\ sttReplies = [r \in R |-> <<>>]
    /\ anReply = [r \in R |-> <<>>]
    /\ status = [r \in R |-> 0]
    /\ error = [r \in R |-> ""]
    /\ detail = [r \in R |-> ""]
    /\ response = [r \in R |-> <<>>]

-----------------------------------------------------------------------------
(* How a request ends.                                                     *)

\* raise HTTPException(status_code, detail), or an exception nobody catches
\* (FastAPI answers 500 to those): no body is returned
Raise(r, code, kind, cause) ==
    /\ status' = [status EXCEPT ![r] = code]
    /\ error' = [error EXCEPT ![r] = kind]
    /\ detail' = [detail EXCEPT ![r] = cause]
    /\ response' = response
    /\ pc' = [pc EXCEPT ![r] = "done"]
    /\ loop' = loop \ {r}

\* return JSONResponse(content=...)
Return(r, body) ==
    /\ status' = [status EXCEPT ![r] = 200]
    /\ response' = [response EXCEPT ![r] = <<body>>]
    /\ UNCHANGED <<error, detail>>
    /\ pc' = [pc EXCEPT ![r] = "done"]
    /\ loop' = loop \ {r}

\* the five list fields declared without a type: only the texts are validated
ValidTextsOnly(language, raw, cleaned, summary, speakers, questions, actions, intents, recs) ==
    IsStr(raw) /\ IsStr(cleaned) /\ IsStr(summary)

\* AnalyzeResponse(...): pydantic accepts a str for the three text fields and
\* a list of str for the five list fields, and raises ValidationError otherwise
Valid(language, raw, cleaned, summary, speakers, questions, actions, intents, recs) ==
    /\ IsStr(raw) /\ IsStr(cleaned) /\ IsStr(summary)
    /\ IsStrList(speakers) /\ IsStrList(questions) /\ IsStrList(actions)
    /\ IsStrList(intents) /\ IsStrList(recs)

\* AnalyzeResponse(...).model_dump()
Dump(language, raw, cleaned, summary, speakers, questions, actions, intents, recs) ==
    [language |-> language,
     raw_transcript |-> raw.s,
     cleaned_transcript |-> cleaned.s,
     summary |-> summary.s,
     speakers |-> speakers.l,
     questions_by_manager |-> questions.l,
     common_actions_by_staff |-> actions.l,
     intents_detected |-> intents.l,
     recommended_agent_behaviors |-> recs.l]

Reverse(l) == [i \in 1..Len(l) |-> l[Len(l) + 1 - i]]

\* the lists deduplicated through a set before they are returned: the order
\* of questions_by_manager is whatever the set yields
RespondUnordered(r, language, raw, cleaned, summary, speakers, questions, actions, intents, recs) ==
    IF Valid(language, raw, cleaned, summary, speakers, questions, actions, intents, recs)
    THEN \E qs \in {questions.l, Reverse(questions.l)} :
            Return(r, Dump(language, raw, cleaned, summary, speakers, PyList(qs),
                           actions, intents, recs))
    ELSE Raise(r, 500, "unhandled", "ValidationError")

\* the construction of the response model and its return; the construction
\* is outside every try, so a ValidationError is answered by FastAPI with 500
Respond(r, language, raw, cleaned, summary, speakers, questions, actions, intents, recs) ==
    IF Valid(language, raw, cleaned, summary, speakers, questions, actions, intents, recs)
    THEN Return(r, Dump(language, raw, cleaned, summary, speakers, questions,
                        actions, intents, recs))
    ELSE Raise(r, 500, "unhandled", "ValidationError")

\* the literal response with its cleaned text trimmed
LiteralResponseTrimmed(r, text, lng) ==
    Respond(r, lng, text, PyStr(Strip(text.s)), PyStr(<<>>), PyList(<<>>),
            PyList(<<>>), PyList(<<>>), PyList(<<>>), PyList(<<>>))

\* if mode == "literal": the response built from the transcript alone
LiteralResponse(r, text, lng) ==
    Respond(r, lng, text, text, PyStr(<<>>), PyList(<<>>), PyList(<<>>),
            PyList(<<>>), PyList(<<>>), PyList(<<>>))

-----------------------------------------------------------------------------
(* The handler, first part: the credential and the upload.                 *)

\* lines 86-87: the credential is missing
ConfigError(r) ==
    /\ pc[r] = "start"
    /\ loop = {}
    /\ KeyMissing(OPENAI_API_KEY)
    /\ Raise(r, 500, "config", "OPENAI_API_KEY")
    /\ UNCHANGED <<OPENAI_API_KEY, file, mode, language_hint, reads, f, raw_text,
                   lang, calls, sttReplies, anReply>>

\* line 91: the handler awaits file.read()
StartRead(r) ==
    /\ pc[r] = "start"
    /\ loop = {}
    /\ ~KeyMissing(OPENAI_API_KEY)
    /\ reads' = [reads EXCEPT ![r] = @ + 1]
    /\ pc' = [pc EXCEPT ![r] = "reading"]
    /\ UNCHANGED <<OPENAI_API_KEY, loop, file, mode, language_hint, f, raw_text,
                   lang, calls, sttReplies, anReply, status, error, detail,
                   response>>

\* line 91 raises: the outer except (lines 115-116) answers 400
ReadRaises(r, CauseSet) ==
    /\ pc[r] = "reading"
    /\ loop = {}
    /\ \E e \in CauseSet : Raise(r, 400, "audio", e)
    /\ UNCHANGED <<OPENAI_API_KEY, file, mode, language_hint, reads, f, raw_text,
                   lang, calls, sttReplies, anReply>>

\* audio_bytes kept in a module-level variable: the bytes given to the
\* primary call are those of whichever request read its upload last
ReadReturnsSharedBytes(r) ==
    /\ pc[r] = "reading"
    /\ loop = {}
    /\ \E q \in {p \in Requests : reads[p] > 0} :
        LET fobj == BytesIO(file[q].content, file[r].filename) IN
        /\ f' = [f EXCEPT ![r] = fobj]
        /\ calls' = [calls EXCEPT ![r] =
               Append(@, SttCall("primary", "gpt-4o-mini-transcribe", fobj,
                                 language_hint[r]))]
    /\ pc' = [pc EXCEPT ![r] = "primary"]
    /\ loop' = {r}
    /\ UNCHANGED <<OPENAI_API_KEY, file, mode, language_hint, reads, raw_text,
                   lang, sttReplies, anReply, status, error, detail, response>>

\* lines 91-101: the bytes arrive, the BytesIO is made and named, and the
\* primary model is called; the call is synchronous, so the handler keeps the
\* event loop until it ends
ReadReturns(r) ==
    /\ pc[r] = "reading"
    /\ loop = {}
    /\ LET fobj == BytesIO(file[r].content, file[r].filename) IN
        /\ f' = [f EXCEPT ![r] = fobj]
        /\ calls' = [calls EXCEPT ![r] =
               Append(@, SttCall("primary", "gpt-4o-mini-transcribe", fobj,
                                 language_hint[r]))]
    /\ pc' = [pc EXCEPT ![r] = "primary"]
    /\ loop' = {r}
    /\ UNCHANGED <<OPENAI_API_KEY, file, mode, language_hint, reads, raw_text,
                   lang, sttReplies, anReply, status, error, detail, response>>

-----------------------------------------------------------------------------
(* The handler, second part: transcription with one fallback.              *)

\* line 119 left out: the analysis model is called in literal mode too
TranscribedAlwaysAnalysed(r, text, lng) ==
    /\ raw_text' = [raw_text EXCEPT ![r] = text]
    /\ lang' = [lang EXCEPT ![r] = lng]
    /\ f' = [f EXCEPT ![r] = Close(@)]
    /\ calls' = [calls EXCEPT ![r] = Append(@, AnalysisCall(text))]
    /\ pc' = [pc EXCEPT ![r] = "analysis"]
    /\ UNCHANGED <<loop, status, error, detail, response>>

\* lines 118-148, reached when one of the two calls has answered: the with
\* block is left with raw_text and lang bound; literal mode answers at once,
\* clean mode calls the analysis model with the transcript
Transcribed(r, text, lng) ==
    /\ raw_text' = [raw_text EXCEPT ![r] = text]
    /\ lang' = [lang EXCEPT ![r] = lng]
    /\ f' = [f EXCEPT ![r] = Close(@)]
    /\ IF mode[r] = "literal"
       THEN /\ LiteralResponse(r, text, lng)
            /\ calls' = calls
       ELSE /\ calls' = [calls EXCEPT ![r] = Append(@, AnalysisCall(text))]
            /\ pc' = [pc EXCEPT ![r] = "analysis"]
            /\ UNCHANGED <<loop, status, error, detail, response>>

\* line 102 written "transcript.text or None": an empty text becomes None
PrimaryReturnsEmptyAsNone(r, ReplySet) ==
    /\ pc[r] = "primary"
    /\ \E rep \in ReplySet :
        /\ sttReplies' = [sttReplies EXCEPT ![r] = Append(@, rep)]
        /\ Transcribed(r, IF rep.text.s = <<>> THEN PyNone ELSE rep.text,
                       Or(rep.language, language_hint[r]))
    /\ UNCHANGED <<OPENAI_API_KEY, file, mode, language_hint, reads, anReply>>

\* lines 97-103: the primary call answers
PrimaryReturns(r, ReplySet) ==
    /\ pc[r] = "primary"
    /\ \E rep \in ReplySet :
        /\ sttReplies' = [sttReplies EXCEPT ![r] = Append(@, rep)]
        /\ Transcribed(r, rep.text, Or(rep.language, language_hint[r]))
    /\ UNCHANGED <<OPENAI_API_KEY, file, mode, language_hint, reads, anReply>>

\* the primary failure answered at once, without the fallback call
PrimaryRaisesNoFallback(r, CauseSet) ==
    /\ pc[r] = "primary"
    /\ \E e \in CauseSet :
        /\ sttReplies' = [sttReplies EXCEPT ![r] = Append(@, SttError(e))]
        /\ Raise(r, 400, "audio", e)
    /\ f' = [f EXCEPT ![r] = Close(@)]
    /\ UNCHANGED <<OPENAI_API_KEY, file, mode, language_hint, reads, raw_text,
                   lang, calls, anReply>>

\* lines 104-112: the primary call raises after the client has consumed some
\* of f; the handler rewinds f and calls whisper-1 with it
PrimaryRaises(r, CauseSet) ==
    /\ pc[r] = "primary"
    /\ \E e \in CauseSet, n \in 0..Len(f[r].buf) :
        LET fobj == Seek0([f[r] EXCEPT !.pos = n]) IN
        /\ sttReplies' = [sttReplies EXCEPT ![r] = Append(@, SttError(e))]
        /\ f' = [f EXCEPT ![r] = fobj]
        /\ calls' = [calls EXCEPT ![r] =
               Append(@, SttCall("fallback", "whisper-1", fobj, language_hint[r]))]
    /\ pc' = [pc EXCEPT ![r] = "fallback"]
    /\ UNCHANGED <<OPENAI_API_KEY, loop, file, mode, language_hint, reads,
                   raw_text, lang, anReply, status, error, detail, response>>

\* line 114 written like line 103: the language whisper-1 reports is used
FallbackReturnsReported(r, ReplySet) ==
    /\ pc[r] = "fallback"
    /\ \E rep \in ReplySet :
        /\ sttReplies' = [sttReplies EXCEPT ![r] = Append(@, rep)]
        /\ Transcribed(r, rep.text, Or(rep.language, language_hint[r]))
    /\ UNCHANGED <<OPENAI_API_KEY, file, mode, language_hint, reads, anReply>>

\* lines 113-114: the fallback call answers; whatever language it reports,
\* lang is the hint
FallbackReturns(r, ReplySet) ==
    /\ pc[r] = "fallback"
    /\ \E rep \in ReplySet :
        /\ sttReplies' = [sttReplies EXCEPT ![r] = Append(@, rep)]
        /\ Transcribed(r, rep.text, language_hint[r])
    /\ UNCHANGED <<OPENAI_API_KEY, file, mode, language_hint, reads, anReply>>

\* the fallback failure swallowed: the handler goes on with an empty transcript
FallbackRaisesSwallowed(r, CauseSet) ==
    /\ pc[r] = "fallback"
    /\ \E e \in CauseSet :
        /\ sttReplies' = [sttReplies EXCEPT ![r] = Append(@, SttError(e))]
        /\ Transcribed(r, PyStr(<<>>), language_hint[r])
    /\ UNCHANGED <<OPENAI_API_KEY, file, mode, language_hint, reads, anReply>>

\* the whisper-1 call in a try of its own whose except re-raises the e of
\* line 104: the answer carries the cause of the primary failure
FallbackRaisesFirstCause(r, CauseSet) ==
    /\ pc[r] = "fallback"
    /\ \E e \in CauseSet :
        /\ sttReplies' = [sttReplies EXCEPT ![r] = Append(@, SttError(e))]
        /\ Raise(r, 400, "audio", sttReplies[r][1].cause)
    /\ f' = [f EXCEPT ![r] = Close(@)]
    /\ UNCHANGED <<OPENAI_API_KEY, file, mode, language_hint, reads, raw_text,
                   lang, calls, anReply>>

\* lines 115-116: the fallback call raises inside the inner except, the
\* outer except answers 400 with its cause
FallbackRaises(r, CauseSet) ==
    /\ pc[r] = "fallback"
    /\ \E e \in CauseSet :
        /\ sttReplies' = [sttReplies EXCEPT ![r] = Append(@, SttError(e))]
        /\ Raise(r, 400, "audio", e)
    /\ f' = [f EXCEPT ![r] = Close(@)]
    /\ UNCHANGED <<OPENAI_API_KEY, file, mode, language_hint, reads, raw_text,
                   lang, calls, anReply>>

-----------------------------------------------------------------------------
(* The handler, third part: the analysis and its output.                   *)

TextKeys == {"cleaned_transcript", "summary"}
ListKeys == {"speakers", "questions_by_manager", "common_actions_by_staff",
             "intents_detected", "recommended_agent_behaviors"}
OutputKeys == TextKeys \cup ListKeys \cup {"language"}

EmptyDict == [k \in {} |-> PyNone]

\* dict.get(key): a missing key yields None
GetNoDefault(d, key, default) == IF key \in DOMAIN d THEN d[key] ELSE PyNone

\* dict.get(key, default): the default stands for a missing key only
Get(d, key, default) == IF key \in DOMAIN d THEN d[key] ELSE default

\* lines 151-152: .strip() exists on a str; on None, a number or a list the
\* attribute lookup raises AttributeError
StripRaises(out) ==
    \/ ~IsStr(Get(out, "cleaned_transcript", PyStr(<<>>)))
    \/ ~IsStr(Get(out, "summary", PyStr(<<>>)))

\* line 165 without "or raw_text"
CleanedOnly(cleaned, raw) == PyStr(cleaned)

\* line 165: cleaned or raw_text
CleanedOrRaw(cleaned, raw) == IF cleaned # <<>> THEN PyStr(cleaned) ELSE raw

AnOutput(out) == [kind |-> "output", output |-> out, cause |-> ""]
AnError(kind, cause) == [kind |-> kind, output |-> EmptyDict, cause |-> cause]

\* the characters of a text as one string
RECURSIVE Join(_)
Join(t) == IF t = <<>> THEN "" ELSE Head(t) \o Join(Tail(t))

\* the response built with language=output.get("language", lang)
AnalysisReturnsOutputLanguage(r, OutputSet) ==
    /\ pc[r] = "analysis"
    /\ \E out \in OutputSet :
        /\ anReply' = [anReply EXCEPT ![r] = <<AnOutput(out)>>]
        /\ IF StripRaises(out)
           THEN Raise(r, 500, "analysis", "AttributeError")
           ELSE Respond(r, IF "language" \in DOMAIN out
                           THEN Join(out["language"].s) ELSE lang[r],
                    raw_text[r],
                    CleanedOrRaw(Strip(Get(out, "cleaned_transcript", PyStr(<<>>)).s),
                                 raw_text[r]),
                    PyStr(Strip(Get(out, "summary", PyStr(<<>>)).s)),
                    Get(out, "speakers", PyList(<<>>)),
                    Get(out, "questions_by_manager", PyList(<<>>)),
                    Get(out, "common_actions_by_staff", PyList(<<>>)),
                    Get(out, "intents_detected", PyList(<<>>)),
                    Get(out, "recommended_agent_behaviors", PyList(<<>>)))
    /\ UNCHANGED <<OPENAI_API_KEY, file, mode, language_hint, reads, f, raw_text,
                   lang, calls, sttReplies>>

\* lines 150-173: the analysis call answers with a JSON object
AnalysisReturns(r, OutputSet) ==
    /\ pc[r] = "analysis"
    /\ \E out \in OutputSet :
        /\ anReply' = [anReply EXCEPT ![r] = <<AnOutput(out)>>]
        /\ IF StripRaises(out)
           THEN Raise(r, 500, "analysis", "AttributeError")
           ELSE Respond(r, lang[r], raw_text[r],
                    CleanedOrRaw(Strip(Get(out, "cleaned_transcript", PyStr(<<>>)).s),
                                 raw_text[r]),
                    PyStr(Strip(Get(out, "summary", PyStr(<<>>)).s)),
                    Get(out, "speakers", PyList(<<>>)),
                    Get(out, "questions_by_manager", PyList(<<>>)),
                    Get(out, "common_actions_by_staff", PyList(<<>>)),
                    Get(out, "intents_detected", PyList(<<>>)),
                    Get(out, "recommended_agent_behaviors", PyList(<<>>)))
    /\ UNCHANGED <<OPENAI_API_KEY, file, mode, language_hint, reads, f, raw_text,
                   lang, calls, sttReplies>>

\* the lenient policy: an analysis failure answered with the transcript alone
AnalysisRaisesLenient(r, CauseSet) ==
    /\ pc[r] = "analysis"
    /\ \E kind \in {"raise", "unparseable"}, e \in CauseSet :
        /\ anReply' = [anReply EXCEPT ![r] = <<AnError(kind, e)>>]
        /\ LiteralResponse(r, raw_text[r], lang[r])
    /\ UNCHANGED <<OPENAI_API_KEY, file, mode, language_hint, reads, f, raw_text,
                   lang, calls, sttReplies>>

\* lines 137-150 raise: the call itself ("raise"), or the extraction of the
\* JSON object from the answer ("unparseable"); lines 158-159 answer 500
AnalysisRaises(r, CauseSet) ==
    /\ pc[r] = "analysis"
    /\ \E kind \in {"raise", "unparseable"}, e \in CauseSet :
        /\ anReply' = [anReply EXCEPT ![r] = <<AnError(kind, e)>>]
        /\ Raise(r, 500, "analysis", e)
    /\ UNCHANGED <<OPENAI_API_KEY, file, mode, language_hint, reads, f, raw_text,
                   lang, calls, sttReplies>>

-----------------------------------------------------------------------------
(* What the analysis backend may answer.  An answer is written as a record *)
(* over all the keys, Absent marking a key the JSON object does not have.  *)

Absent == [t |-> "absent", s |-> <<>>, l |-> <<>>]

DictOf(rec) == [k \in {x \in OutputKeys : rec[x] # Absent} |-> rec[k]]

SomeSummary == PyStr(<<" ", "a">>)
SomeSpeakers == PyList(<< <<"a">> >>)
SomeQuestions == PyList(<< <<"a">>, <<" ">> >>)
SomeActions == PyList(<< <<" ">>, <<"a">> >>)
SomeIntents == PyList(<< <<"a">>, <<"a">> >>)
SomeRecs == PyList(<< <<"a", "a">> >>)

\* a complete, well-typed answer whose cleaned text is c
Complete(c) ==
    [cleaned_transcript |-> c, summary |-> SomeSummary,
     speakers |-> SomeSpeakers, questions_by_manager |-> SomeQuestions,
     common_actions_by_staff |-> SomeActions, intents_detected |-> SomeIntents,
     recommended_agent_behaviors |-> SomeRecs, language |-> Absent]

\* one key of the answer missing, null or of another type
Deviations == {Absent, PyNone, PyInt, PyMixed, PyStr(<<"a">>), PyList(<<>>)}
Deviating(rec) ==
    {[rec EXCEPT ![k] = v] : k \in TextKeys \cup ListKeys, v \in Deviations}

\* the answers of the pipeline specification: the transcript echoed, a few
\* cleaned texts, a language key, and every one-key deviation of the echo
PipelineOutputs(raw) ==
    {DictOf(rec) : rec \in
        {Complete(raw), Complete(PyStr(<<>>)), Complete(PyStr(<<" ", "a">>)),
         [Complete(raw) EXCEPT !.language = PyStr(<<"a">>)]}
        \cup Deviating(Complete(raw))}

\* the answers of the analysis specification: every subset of the seven keys
\* missing, every present key well typed
TextOrAbsent == {Absent} \cup {PyStr(t) : t \in Texts}
AnalysisOutputs ==
    {DictOf(rec) : rec \in
        [cleaned_transcript : TextOrAbsent,
         summary : {Absent, PyStr(<<>>), SomeSummary},
         speakers : {Absent, PyList(<<>>), SomeSpeakers},
         questions_by_manager : {Absent, PyList(<<>>), SomeQuestions},
         common_actions_by_staff : {Absent, PyList(<<>>), SomeActions},
         intents_detected : {Absent, PyList(<<>>), SomeIntents},
         recommended_agent_behaviors : {Absent, PyList(<<>>), SomeRecs},
         language : {Absent}]}

PrimaryReplies == {SttReply(t, l) : t \in Transcripts, l \in Languages}
FallbackReplies == {SttReply(t, l) : t \in Transcripts, l \in {NoneStr, "es"}}

-----------------------------------------------------------------------------
(* The pipeline specification: one request, every path of the handler.     *)

Init == InitWith({1}, Keys, Uploads, Modes, Hints)

Next ==
    \/ \E r \in Requests : ConfigError(r)
    \/ \E r \in Requests : StartRead(r)
    \/ \E r \in Requests : ReadRaises(r, {"timeout"})
    \/ \E r \in Requests : ReadReturns(r)
    \/ \E r \in Requests : PrimaryReturns(r, PrimaryReplies)
    \/ \E r \in Requests : PrimaryRaises(r, {"timeout"})
    \/ \E r \in Requests : FallbackReturns(r, FallbackReplies)
    \/ \E r \in Requests : FallbackRaises(r, Causes)
    \/ \E r \in Requests : AnalysisReturns(r, PipelineOutputs(raw_text[r]))
    \/ \E r \in Requests : AnalysisRaises(r, {"timeout"})

Spec == Init /\ [][Next]_vars

-----------------------------------------------------------------------------
(* The analysis specification: one clean-mode request with the credential  *)
(* set, transcribed by the primary model, and every combination of present *)
(* and missing keys in the analysis output.                                *)

InitAnalysis ==
    InitWith({1}, {"sk-test"}, {[content |-> <<1, 2>>, filename |-> "call.mp3"]},
             {"clean"}, {NoneStr})

NextAnalysis ==
    \/ \E r \in Requests : StartRead(r)
    \/ \E r \in Requests : ReadReturns(r)
    \/ \E r \in Requests :
           PrimaryReturns(r, {SttReply(t, NoneStr) : t \in Transcripts})
    \/ \E r \in Requests : AnalysisReturns(r, AnalysisOutputs)

SpecAnalysis == InitAnalysis /\ [][NextAnalysis]_vars

-----------------------------------------------------------------------------
(* The pair specification: two requests served by the same process, their  *)
(* steps interleaved as the event loop allows, each with its own inputs    *)
(* and its own backend replies.                                            *)

PairUploads == {[content |-> <<1, 2>>, filename |-> "call.mp3"],
                [content |-> <<1>>, filename |-> NoneStr]}
PairTranscripts == {PyStr(<<"a">>), PyStr(<<" ", "a">>)}
PairPrimaryReplies == {SttReply(t, l) : t \in PairTranscripts, l \in {NoneStr, "es"}}
PairFallbackReplies == {SttReply(t, "es") : t \in PairTranscripts}
PairOutputs(raw) ==
    {DictOf(rec) : rec \in
        {Complete(raw),
         [Complete(PyStr(<<>>)) EXCEPT !.summary = Absent],
         [Complete(raw) EXCEPT !.speakers = PyNone],
         [Complete(raw) EXCEPT !.language = PyStr(<<"a">>)]}}

InitPair == InitWith({1, 2}, {"", "sk-test"}, PairUploads, Modes, {NoneStr, "pt"})

NextPair ==
    \/ \E r \in Requests : ConfigError(r)
    \/ \E r \in Requests : StartRead(r)
    \/ \E r \in Requests : ReadRaises(r, Causes)
    \/ \E r \in Requests : ReadReturns(r)
    \/ \E r \in Requests : PrimaryReturns(r, PairPrimaryReplies)
    \/ \E r \in Requests : PrimaryRaises(r, {"timeout"})
    \/ \E r \in Requests : FallbackReturns(r, PairFallbackReplies)
    \/ \E r \in Requests : FallbackRaises(r, Causes)
    \/ \E r \in Requests : AnalysisReturns(r, PairOutputs(raw_text[r]))
    \/ \E r \in Requests : AnalysisRaises(r, {"timeout"})

SpecPair == InitPair /\ [][NextPair]_vars

-----------------------------------------------------------------------------
(* Reading the history of a request.                                       *)

CallsTo(r, api) == {i \in DOMAIN calls[r] : calls[r][i].api = api}

PrimaryFailed(r) == Len(sttReplies[r]) >= 1 /\ ~sttReplies[r][1].ok
FallbackFailed(r) == Len(sttReplies[r]) = 2 /\ ~sttReplies[r][2].ok
BothFailed(r) == PrimaryFailed(r) /\ FallbackFailed(r)

\* the reply that produced the transcript, when there is one
Answered(r) == Len(sttReplies[r]) >= 1 /\ sttReplies[r][Len(sttReplies[r])].ok
Answer(r) == sttReplies[r][Len(sttReplies[r])]

Done(r) == pc[r] = "done"
Succeeded(r) == status[r] = 200 /\ Len(response[r]) = 1
Body(r) == response[r][1]

-----------------------------------------------------------------------------
(* Claims about the transcription stage and the modes.                     *)

\* C1: once the primary speech-to-text call of a request has failed, exactly
\* one fallback call has been made, right after the primary call, and it
\* carries the whole uploaded payload, byte for byte what the primary call
\* carried, with the same filename and the same language hint.
C1_FallbackSameInput ==
    \A r \in Requests :
        PrimaryFailed(r) =>
            /\ CallsTo(r, "primary") = {1}
            /\ CallsTo(r, "fallback") = {2}
            /\ calls[r][2].payload = calls[r][1].payload
            /\ calls[r][2].payload = file[r].content
            /\ calls[r][2].name = calls[r][1].name
            /\ calls[r][2].language = calls[r][1].language
            /\ calls[r][2].language = language_hint[r]

C1_Witness ==
    /\ PrimaryFailed(1) /\ Answered(1) /\ Done(1)
    /\ file[1].content = <<1, 2>>
    /\ language_hint[1] = "pt"

\* C2: when both speech-to-text calls of a request have failed, the request
\* has ended with status 400 (the audio error), no body was returned and the
\* analysis backend was not called.
C2_BothFailIsError ==
    \A r \in Requests :
        BothFailed(r) =>
            /\ Done(r)
            /\ status[r] = 400 /\ error[r] = "audio"
            /\ response[r] = <<>>
            /\ CallsTo(r, "analysis") = {}
            /\ anReply[r] = <<>>

C2_Witness == BothFailed(1) /\ mode[1] = "clean" /\ Done(1)

\* C3 as stated: a request ends with the audio error (400) only after both
\* speech-to-text attempts were made and both failed.
C3_OnlyAfterBothFail ==
    \A r \in Requests : status[r] = 400 => BothFailed(r)

\* C3 amended: a request ends with the audio error (400) only if reading the
\* upload failed, before any speech-to-text attempt, or if both attempts were
\* made and both failed; never after exactly one attempt, and never after an
\* attempt that succeeded.
C3_ReadFailedOrBothFail ==
    \A r \in Requests :
        status[r] = 400 =>
            \/ /\ sttReplies[r] = <<>> /\ calls[r] = <<>>
               /\ reads[r] = 1 /\ f[r] = NoFile
            \/ /\ BothFailed(r)
               /\ Cardinality(CallsTo(r, "primary")) = 1
               /\ Cardinality(CallsTo(r, "fallback")) = 1

C3_Witness == status[1] = 400 /\ sttReplies[1] = <<>> /\ reads[1] = 1

\* C4: with the credential missing (unset or empty), a request never starts
\* reading the upload and never calls a backend, and when it has ended it has
\* ended with status 500 and the configuration error, in either mode.
C4_NoKeyFailsFast ==
    \A r \in Requests :
        (OPENAI_API_KEY = NoneStr \/ OPENAI_API_KEY = "") =>
            /\ reads[r] = 0 /\ f[r] = NoFile
            /\ calls[r] = <<>> /\ sttReplies[r] = <<>> /\ anReply[r] = <<>>
            /\ pc[r] \in {"start", "done"}
            /\ Done(r) => /\ status[r] = 500 /\ error[r] = "config"
                          /\ response[r] = <<>>

C4_Witness == OPENAI_API_KEY = "" /\ Done(1) /\ mode[1] = "literal"

\* C5: in literal mode the analysis backend is never called, and a request
\* whose transcription answered with a text has ended with a response whose
\* raw_transcript is that text, whose cleaned_transcript is the same text
\* unchanged, whose summary is empty and whose five lists are empty.
C5_LiteralEchoes ==
    \A r \in Requests :
        mode[r] = "literal" =>
            /\ CallsTo(r, "analysis") = {}
            /\ anReply[r] = <<>>
            /\ (Answered(r) /\ IsStr(Answer(r).text)) =>
                /\ Done(r) /\ Succeeded(r)
                /\ Body(r).raw_transcript = Answer(r).text.s
                /\ Body(r).cleaned_transcript = Answer(r).text.s
                /\ Body(r).summary = <<>>
                /\ Body(r).speakers = <<>>
                /\ Body(r).questions_by_manager = <<>>
                /\ Body(r).common_actions_by_staff = <<>>
                /\ Body(r).intents_detected = <<>>
                /\ Body(r).recommended_agent_behaviors = <<>>

C5_Witness ==
    /\ mode[1] = "literal" /\ Succeeded(1)
    /\ Body(1).raw_transcript = <<" ", "a">>

-----------------------------------------------------------------------------
(* Claims about the analysis stage.                                        *)

HasOutput(r) == anReply[r] # <<>> /\ anReply[r][1].kind = "output"
Output(r) == anReply[r][1].output

\* every key that is present holds a value of the type the schema gives it
WellTyped(out) ==
    /\ \A k \in TextKeys \cap DOMAIN out : IsStr(out[k])
    /\ \A k \in ListKeys \cap DOMAIN out : IsStrList(out[k])

\* t is v without its leading and trailing whitespace
IsTrimOf(t, v) ==
    \E i \in 1..(Len(v) + 1), j \in 0..Len(v) :
        /\ t = SubSeq(v, i, j)
        /\ \A k \in 1..(i - 1) : v[k] \in Whitespace
        /\ \A k \in (j + 1)..Len(v) : v[k] \in Whitespace
        /\ t # <<>> => (t[1] \notin Whitespace /\ t[Len(t)] \notin Whitespace)

\* C6 as stated: after an analysis output whose present keys are well typed,
\* whatever subset of the seven keys is missing, the request succeeds, each
\* missing text field is empty (cleaned_transcript then being raw_transcript),
\* each missing list is empty, and each present key keeps the backend's value.
C6_PresentKeepsValue ==
    \A r \in Requests :
        (HasOutput(r) /\ WellTyped(Output(r)) /\ IsStr(raw_text[r])) =>
            /\ Done(r) /\ Succeeded(r)
            /\ \A k \in ListKeys :
                Body(r)[k] = IF k \in DOMAIN Output(r) THEN Output(r)[k].l ELSE <<>>
            /\ Body(r).summary =
                IF "summary" \in DOMAIN Output(r) THEN Output(r)["summary"].s ELSE <<>>
            /\ Body(r).cleaned_transcript =
                IF "cleaned_transcript" \in DOMAIN Output(r)
                THEN Output(r)["cleaned_transcript"].s
                ELSE raw_text[r].s

\* C6 amended: after an analysis output whose present keys are well typed,
\* whatever subset of the seven keys is missing, the request succeeds; a
\* missing list is empty and a present list keeps the backend's value; summary
\* is empty when missing and the backend's text without its surrounding
\* whitespace when present; cleaned_transcript is the backend's text without
\* its surrounding whitespace, or raw_transcript when the key is missing or
\* nothing is left of its text.
C6_DefaultedPerKey ==
    \A r \in Requests :
        (HasOutput(r) /\ WellTyped(Output(r)) /\ IsStr(raw_text[r])) =>
            /\ Done(r) /\ Succeeded(r)
            /\ Body(r).raw_transcript = raw_text[r].s
            /\ \A k \in ListKeys :
                Body(r)[k] = IF k \in DOMAIN Output(r) THEN Output(r)[k].l ELSE <<>>
            /\ IF "summary" \in DOMAIN Output(r)
               THEN IsTrimOf(Body(r).summary, Output(r)["summary"].s)
               ELSE Body(r).summary = <<>>
            /\ IF /\ "cleaned_transcript" \in DOMAIN Output(r)
                  /\ ~IsTrimOf(<<>>, Output(r)["cleaned_transcript"].s)
               THEN IsTrimOf(Body(r).cleaned_transcript,
                             Output(r)["cleaned_transcript"].s)
               ELSE Body(r).cleaned_transcript = raw_text[r].s

C6_Witness ==
    /\ HasOutput(1) /\ Succeeded(1)
    /\ DOMAIN Output(1) = {"cleaned_transcript", "speakers"}
    /\ Output(1)["cleaned_transcript"] = PyStr(<<" ", "a">>)
    /\ Body(1).cleaned_transcript = <<"a">>
    /\ Body(1).summary = <<>>
    /\ Body(1).intents_detected = <<>>

\* C7: after an analysis output in which a key is present and null, the other
\* present keys being well typed, the request succeeds and each null field is
\* the empty default of its type (cleaned_transcript then being
\* raw_transcript).
C7_NullIsDefaulted ==
    \A r \in Requests :
        (/\ HasOutput(r) /\ IsStr(raw_text[r])
         /\ \E k \in (TextKeys \cup ListKeys) \cap DOMAIN Output(r) :
                Output(r)[k] = PyNone
         /\ WellTyped([k \in {x \in DOMAIN Output(r) : Output(r)[x] # PyNone}
                       |-> Output(r)[k]])) =>
            /\ Done(r) /\ Succeeded(r)
            /\ \A k \in ListKeys \cap DOMAIN Output(r) :
                Output(r)[k] = PyNone => Body(r)[k] = <<>>
            /\ ("summary" \in DOMAIN Output(r) /\ Output(r)["summary"] = PyNone)
                => Body(r).summary = <<>>
            /\ ("cleaned_transcript" \in DOMAIN Output(r)
                /\ Output(r)["cleaned_transcript"] = PyNone)
                => Body(r).cleaned_transcript = raw_text[r].s

\* C8: an analysis output in which a key holds a value of the wrong shape (a
\* list key holding a string, a number or a list of non-strings; a text key
\* holding a number or a list) never makes the request fail.
C8_WrongShapeTolerated ==
    \A r \in Requests :
        (/\ HasOutput(r) /\ IsStr(raw_text[r])
         /\ \A k \in DOMAIN Output(r) : Output(r)[k] # PyNone
         /\ ~WellTyped(Output(r))) =>
            /\ Done(r)
            /\ status[r] = 200

\* t starts or ends with whitespace
Surrounded(t) ==
    t # <<>> /\ (t[1] \in Whitespace \/ t[Len(t)] \in Whitespace)

\* the analysis backend sent the transcript back as cleaned_transcript
Echoed(r) ==
    /\ mode[r] = "clean" /\ HasOutput(r) /\ WellTyped(Output(r))
    /\ IsStr(raw_text[r])
    /\ "cleaned_transcript" \in DOMAIN Output(r)
    /\ Output(r)["cleaned_transcript"] = raw_text[r]

AnalysisFailed(r) == anReply[r] # <<>> /\ anReply[r][1].kind # "output"

\* C10: a clean-mode request whose analysis failed has ended with status 500
\* and no body, and a clean-mode request that has returned a body has had an
\* analysis output: the transcript is never returned alone, with empty or
\* partial analysis fields, after an analysis failure.
C10_StrictPolicy ==
    \A r \in Requests :
        /\ AnalysisFailed(r) =>
            /\ mode[r] = "clean"
            /\ Done(r)
            /\ status[r] = 500 /\ error[r] = "analysis"
            /\ response[r] = <<>>
        /\ (mode[r] = "clean" /\ response[r] # <<>>) =>
            /\ HasOutput(r) /\ ~StripRaises(Output(r))
            /\ status[r] = 200

C10_Witness ==
    /\ AnalysisFailed(1) /\ anReply[1][1].kind = "unparseable"
    /\ Done(1) /\ raw_text[1] = PyStr(<<"a">>)

-----------------------------------------------------------------------------
(* Claims about the assembled response.                                    *)

\* the analysis call of a request, when it was made
AnalysisCallOf(r) == calls[r][Len(calls[r])]

\* C11 as stated: after an analysis output whose present keys are well typed,
\* raw_transcript is the transcriber's text, which is also the text given to
\* the analysis backend; summary and the five lists are the analyzer's values
\* unchanged; cleaned_transcript is the analyzer's cleaned text trimmed, or
\* raw_transcript when nothing is left of it.
C11_MirrorsAnalyzer ==
    \A r \in Requests :
        (HasOutput(r) /\ WellTyped(Output(r)) /\ Answered(r)
         /\ IsStr(Answer(r).text)) =>
            /\ Done(r) /\ Succeeded(r)
            /\ Body(r).raw_transcript = Answer(r).text.s
            /\ AnalysisCallOf(r).api = "analysis"
            /\ AnalysisCallOf(r).text = Answer(r).text
            /\ "summary" \in DOMAIN Output(r) =>
                Body(r).summary = Output(r)["summary"].s
            /\ \A k \in ListKeys \cap DOMAIN Output(r) :
                Body(r)[k] = Output(r)[k].l

\* C11 amended: after an analysis output whose present keys are well typed,
\* raw_transcript is the transcriber's text, which is also the text given
\* verbatim to the analysis backend, whatever the analyzer returns; the five
\* lists are the analyzer's lists, same elements in the same order; summary is
\* the analyzer's summary without its leading and trailing whitespace;
\* cleaned_transcript is the analyzer's cleaned text without its leading and
\* trailing whitespace, or raw_transcript when nothing is left of it.
C11_MirrorsTrimmed ==
    \A r \in Requests :
        (HasOutput(r) /\ WellTyped(Output(r)) /\ Answered(r)
         /\ IsStr(Answer(r).text)) =>
            /\ Done(r) /\ Succeeded(r)
            /\ Body(r).raw_transcript = Answer(r).text.s
            /\ Cardinality(CallsTo(r, "analysis")) = 1
            /\ AnalysisCallOf(r).api = "analysis"
            /\ AnalysisCallOf(r).text = Answer(r).text
            /\ "summary" \in DOMAIN Output(r) =>
                IsTrimOf(Body(r).summary, Output(r)["summary"].s)
            /\ \A k \in ListKeys \cap DOMAIN Output(r) :
                /\ Len(Body(r)[k]) = Len(Output(r)[k].l)
                /\ \A i \in 1..Len(Body(r)[k]) : Body(r)[k][i] = Output(r)[k].l[i]
            /\ "cleaned_transcript" \in DOMAIN Output(r) =>
                IF IsTrimOf(<<>>, Output(r)["cleaned_transcript"].s)
                THEN Body(r).cleaned_transcript = Body(r).raw_transcript
                ELSE IsTrimOf(Body(r).cleaned_transcript,
                              Output(r)["cleaned_transcript"].s)

C11_Witness ==
    /\ mode[1] = "clean" /\ Succeeded(1) /\ PrimaryFailed(1)
    /\ DOMAIN Output(1) = TextKeys \cup ListKeys
    /\ Output(1)["cleaned_transcript"] = PyStr(<<>>)
    /\ Body(1).cleaned_transcript = <<"a", " ">>
    /\ Body(1).questions_by_manager = << <<"a">>, <<" ">> >>

\* C12: once a speech-to-text call of a request has answered, raw_text is a
\* string (possibly empty) and is the text of that answer; every body returned
\* follows such an answer and carries that string as raw_transcript; and in
\* literal mode the request has then ended with a body, never with an error.
C12_TextIsDefined ==
    \A r \in Requests :
        /\ Answered(r) =>
            /\ IsStr(raw_text[r])
            /\ raw_text[r] = Answer(r).text
            /\ raw_text[r].s \in Texts
            /\ mode[r] = "literal" =>
                (Done(r) /\ Succeeded(r) /\ error[r] = "")
        /\ response[r] # <<>> =>
            /\ Answered(r)
            /\ Body(r).raw_transcript = Answer(r).text.s
            /\ Body(r).raw_transcript \in Texts

C12_Witness ==
    /\ mode[1] = "literal" /\ PrimaryFailed(1) /\ Answered(1)
    /\ Answer(1).text = PyStr(<<>>)
    /\ Succeeded(1) /\ Body(1).raw_transcript = <<>>

-----------------------------------------------------------------------------
(* Claims about two runs of the pipeline.                                  *)

\* reading the upload raised
ReadFailed(r) == Done(r) /\ error[r] = "audio" /\ sttReplies[r] = <<>>

SameInputs(r, q) ==
    /\ file[r] = file[q]
    /\ mode[r] = mode[q]
    /\ language_hint[r] = language_hint[q]

\* the environment answered the two runs alike: the read of the upload, the
\* speech-to-text calls and the analysis call
SameReplies(r, q) ==
    /\ ReadFailed(r) = ReadFailed(q)
    /\ ReadFailed(r) => detail[r] = detail[q]
    /\ sttReplies[r] = sttReplies[q]
    /\ anReply[r] = anReply[q]

-----------------------------------------------------------------------------
(* Claims about the language, the order of the calls and the causes.       *)

\* C14: in every successful response, when the primary call answered the
\* language is the language that call reported if it reported a non-empty one
\* and the caller's hint otherwise (None when no hint was given); when the
\* fallback call answered it is the caller's hint (None when no hint was
\* given), whatever language the fallback call reported.
C14_LanguageChoice ==
    \A r \in Requests :
        Succeeded(r) =>
            IF PrimaryFailed(r)
            THEN Body(r).language = language_hint[r]
            ELSE Body(r).language =
                    (IF Truthy(sttReplies[r][1].language)
                     THEN sttReplies[r][1].language
                     ELSE language_hint[r])

\* the fallback call reported a language and the response carries the hint
C14_Witness ==
    /\ Succeeded(1) /\ PrimaryFailed(1)
    /\ Answer(1).language = "es"
    /\ language_hint[1] = "pt" /\ Body(1).language = "pt"


\* the backend calls of r that have not been answered yet: one while r waits
Pending(r) == IF pc[r] \in {"primary", "fallback", "analysis"} THEN 1 ELSE 0

\* C15: at every moment of a request, at most one call was made to each of
\* the three backends; a fallback call is the second call, made after a
\* primary call whose reply was a failure; an analysis call is the last call,
\* made in clean mode right after a speech-to-text reply that succeeded; and
\* every call but a pending one has its reply, so that after a failed fallback
\* or a failed analysis the failed call is the last call of the request.
C15_CallOrder ==
    \A r \in Requests :
        /\ \A api \in {"primary", "fallback", "analysis"} :
              Cardinality(CallsTo(r, api)) <= 1
        /\ Len(calls[r]) = Len(sttReplies[r]) + Len(anReply[r]) + Pending(r)
        /\ calls[r] # <<>> => calls[r][1].api = "primary"
        /\ \A i \in CallsTo(r, "fallback") :
              i = 2 /\ PrimaryFailed(r)
        /\ \A i \in CallsTo(r, "analysis") :
              /\ mode[r] = "clean"
              /\ i = Len(calls[r]) /\ i = Len(sttReplies[r]) + 1
              /\ Answered(r)
        /\ FallbackFailed(r) =>
              Done(r) /\ Len(calls[r]) = 2 /\ calls[r][2].api = "fallback"
        /\ AnalysisFailed(r) =>
              Done(r) /\ calls[r][Len(calls[r])].api = "analysis"

\* the three calls of one request, in order, the last one failed
C15_Witness ==
    /\ Len(calls[1]) = 3
    /\ calls[1][2].api = "fallback" /\ calls[1][3].api = "analysis"
    /\ AnalysisFailed(1) /\ anReply[1][1].kind = "raise"


\* C16: when both speech-to-text calls of a request have failed, the cause in
\* the error answer is the cause the fallback call failed with; it is the
\* primary call's cause only when the two causes are the same.
C16_TerminalCause ==
    \A r \in Requests :
        BothFailed(r) =>
            /\ error[r] = "audio"
            /\ detail[r] = sttReplies[r][2].cause
            /\ sttReplies[r][1].cause # sttReplies[r][2].cause =>
                  detail[r] # sttReplies[r][1].cause

C16_Witness ==
    /\ BothFailed(1) /\ Done(1)
    /\ sttReplies[1][1].cause = "timeout"
    /\ sttReplies[1][2].cause = "unsupported"
    /\ detail[1] = "unsupported"

-----------------------------------------------------------------------------
(* Claims about concurrent requests.                                       *)

\* a step the handler of q takes before its first backend call
EarlyStep(q) ==
    \/ ConfigError(q)
    \/ StartRead(q)
    \/ ReadRaises(q, Causes)
    \/ ReadReturns(q)

\* C17 as stated: while a request waits for the reply of a backend call,
\* another request of the same process whose handler has work to do (it has
\* just arrived, or the bytes of its upload are ready) can take its step.
C17_OthersProgress ==
    \A r, q \in Requests :
        (r # q /\ Pending(r) = 1 /\ pc[q] \in {"start", "reading"}) =>
            ENABLED EarlyStep(q)


\* everything the handler of q holds
Local(q) ==
    <<file[q], mode[q], language_hint[q], pc[q], reads[q], f[q], raw_text[q],
      lang[q], calls[q], sttReplies[q], anReply[q], status[q], error[q],
      detail[q], response[q]>>

\* the audio buffer, the calls, the transcript, the language and the response
\* of r come from the upload and hint of r and from the replies to r's calls
OwnData(r) ==
    /\ f[r] # NoFile =>
          f[r].buf = file[r].content /\ f[r].name = Or(file[r].filename, "audio.wav")
    /\ \A i \in DOMAIN calls[r] :
          IF calls[r][i].api = "analysis"
          THEN calls[r][i].text = raw_text[r]
          ELSE /\ calls[r][i].payload = file[r].content
               /\ calls[r][i].name = f[r].name
               /\ calls[r][i].language = language_hint[r]
    /\ Answered(r) =>
          /\ raw_text[r] = Answer(r).text
          /\ lang[r] = IF PrimaryFailed(r) THEN language_hint[r]
                       ELSE Or(Answer(r).language, language_hint[r])
    /\ ~Answered(r) => raw_text[r] = PyNone /\ lang[r] = NoneStr
    /\ Succeeded(r) =>
          /\ Body(r).raw_transcript = raw_text[r].s
          /\ Body(r).language = lang[r]
          /\ mode[r] = "clean" =>
                /\ HasOutput(r)
                /\ Body(r).summary = Strip(Get(Output(r), "summary", PyStr(<<>>)).s)
                /\ Body(r).speakers = Get(Output(r), "speakers", PyList(<<>>)).l

\* C18: in every interleaving of the requests of one process, a step changes
\* what at most one request holds and never the credential, and after it each
\* request's buffer, calls, transcript, language and response are those that
\* follow from its own upload, mode, hint and the replies to its own calls.
C18_Isolated ==
    [][/\ OPENAI_API_KEY' = OPENAI_API_KEY
       /\ \E r \in Requests : \A q \in Requests \ {r} : Local(q)' = Local(q)
       /\ \A r \in Requests : OwnData(r)']_vars

\* request 2 is suspended at its read while request 1, with another upload
\* and another hint, has its transcript and waits for the analysis
C18_Witness ==
    /\ pc[1] = "analysis" /\ pc[2] = "reading"
    /\ file[1] # file[2] /\ language_hint[1] # language_hint[2]
    /\ raw_text[1] = PyStr(<<" ", "a">>)

-----------------------------------------------------------------------------
(* Claims about the shape of the response.                                 *)

ResponseFields == {"language", "raw_transcript", "cleaned_transcript", "summary"}
                      \cup ListKeys

\* C19: every successful response, in literal and in clean mode, after the
\* primary or the fallback call, has exactly the nine fields; raw_transcript,
\* cleaned_transcript and summary are strings and the five list fields are
\* sequences of strings: raw_transcript is the string the transcriber
\* returned, and in clean mode each list is the list of strings the analyzer
\* gave for its key, or the empty list when the key is missing.
C19_AllFieldsTyped ==
    \A r \in Requests :
        Succeeded(r) =>
            /\ DOMAIN Body(r) = ResponseFields
            /\ IsStr(raw_text[r]) /\ Body(r).raw_transcript = raw_text[r].s
            /\ Body(r).raw_transcript \in Seq(Chars)
            /\ Body(r).cleaned_transcript \in Seq(Chars)
            /\ Body(r).summary \in Seq(Chars)
            /\ \A k \in ListKeys :
                  /\ Body(r)[k] \in Seq(Seq(Chars))
                  /\ IF mode[r] = "literal"
                     THEN Body(r)[k] = <<>>
                     ELSE /\ IsStrList(Get(Output(r), k, PyList(<<>>)))
                          /\ Body(r)[k] = Get(Output(r), k, PyList(<<>>)).l

\* a clean response after the fallback call whose analysis gave no speakers
C19_Witness ==
    /\ Succeeded(1) /\ mode[1] = "clean" /\ PrimaryFailed(1)
    /\ "speakers" \notin DOMAIN Output(1)
    /\ Body(1).speakers = <<>>
    /\ Body(1).intents_detected = SomeIntents.l


\* C20: a successful clean-mode response and a successful literal-mode
\* response of two requests that had the same speech-to-text replies and the
\* same language hint carry the same language, whatever the analysis answer
\* of the clean-mode request holds under its language key.
C20_LanguageIgnoresAnalyzer ==
    \A r, q \in Requests :
        (/\ Succeeded(r) /\ mode[r] = "clean"
         /\ Succeeded(q) /\ mode[q] = "literal"
         /\ sttReplies[r] = sttReplies[q]
         /\ language_hint[r] = language_hint[q]) =>
            Body(r).language = Body(q).language

\* the analyzer named a language and the clean response carries the hint
C20_Witness ==
    /\ Succeeded(1) /\ mode[1] = "clean"
    /\ Succeeded(2) /\ mode[2] = "literal"
    /\ sttReplies[1] = sttReplies[2] /\ ~PrimaryFailed(1)
    /\ language_hint[1] = "pt" /\ language_hint[2] = "pt"
    /\ "language" \in DOMAIN Output(1)
    /\ Body(1).language = "pt"

=============================================================================
